---- MODULE Spec2Model ----
(***************************************************************************)
(* A model of degenbot's UniswapTransaction.simulate and                   *)
(* UniswapTransaction.simulate_multicall                                   *)
(* (src/transaction/uniswap_transaction.py).                               *)
(*                                                                         *)
(* One activation of simulate is held in the variables pc, func_name,      *)
(* func_params, future_state and the drivers' locals; the activations of   *)
(* simulate_multicall that are suspended below it are held in mstack.      *)
(* The pool manager, the pools' simulate_swap and the ABI decoder are      *)
(* external: their answers are drawn nondeterministically.                 *)
(***************************************************************************)
EXTENDS Integers, Sequences, FiniteSets, TLC

VARIABLES
    tx,                 \* self: the transaction's own fields
    args,               \* the arguments of the running activation of simulate
    pools,              \* live reserve state of every V2 pool
    pc,                 \* position of the running activation of simulate
    func_name,          \* simulate's func_name after defaulting
    func_params,        \* simulate's func_params after defaulting
    future_state,       \* simulate's local result list
    pool_objects,       \* v2 drivers: the resolved pools
    hop,                \* v2 drivers: the loops' locals
    v3,                 \* v3 single-hop drivers: the locals of the last call
    dec,                \* exactInput / exactOutput: the decode loop's locals
    enc,                \* exactInput / exactOutput: the hop loop's locals
    mstack,             \* suspended activations of simulate_multicall
    calls,              \* every simulate_swap request made so far, in order
    ret                 \* what the activation that just ended returned or raised

vars == <<tx, args, pools, pc, func_name, func_params, future_state,
          pool_objects, hop, v3, dec, enc, mstack, calls, ret>>

----------------------------------------------------------------------------
(* Bounds of the model.                                                    *)

\* longest V2 token path
MaxPath == 3
\* most pools in an encoded V3 path
MaxPools == 2
\* most payloads in a multicall batch
MaxData == 2
\* deepest nesting of simulate_multicall activations before the interpreter
\* gives up with RecursionError
MaxDepth == 2
\* the decode loop's cursor is followed up to this many bytes past the end
MaxOverrun == 46

(* Program constants.                                                      *)

\* width of an address segment of an encoded path
AddressBytes == 20
\* width of a fee segment of an encoded path
FeeBytes == 3

----------------------------------------------------------------------------
(* Python values.                                                          *)

\* Optional values: <<>> is None / unbound, <<v>> is v.
None == <<>>
Some(v) == <<v>>
IsNone(o) == o = <<>>
Val(o) == o[1]

\* dict.get(key)
Get(d, k) == IF k \in DOMAIN d THEN Some(d[k]) ELSE None

Max2(a, b) == IF a >= b THEN a ELSE b
Min2(a, b) == IF a <= b THEN a ELSE b

\* x in s, for strings x and s: x occurs in s as a substring
StrIn(x, s) ==
    \E i \in 0..(Len(s) - Len(x)) : SubSeq(s, i + 1, i + Len(x)) = x

\* x in t, for a tuple or list t of strings
TupleIn(x, t) == \E i \in 1..Len(t) : t[i] = x

HexDigits == "0123456789abcdef"

\* bytes.hex()
RECURSIVE Hex(_)
Hex(bs) ==
    IF bs = <<>> THEN ""
    ELSE SubSeq(HexDigits, (bs[1] \div 16) + 1, (bs[1] \div 16) + 1)
         \o SubSeq(HexDigits, (bs[1] % 16) + 1, (bs[1] % 16) + 1)
         \o Hex(Tail(bs))

HexValue(c) == (CHOOSE i \in 1..16 : SubSeq(HexDigits, i, i) = c) - 1

\* int(s, 16)
RECURSIVE IntBase16(_)
IntBase16(s) ==
    IF Len(s) = 0 THEN 0
    ELSE IntBase16(SubSeq(s, 1, Len(s) - 1)) * 16
         + HexValue(SubSeq(s, Len(s), Len(s)))

\* An exception: its class and what raised it.
Exc(type, why) == [type |-> type, why |-> why]
NoExc == Exc("", "")

----------------------------------------------------------------------------
(* The function dispatcher's name lists.                                   *)

ExactInTokensForETH ==
    << "swapExactTokensForETH",
       "swapExactTokensForETHSupportingFeeOnTransferTokens" >>

ExactInETHForTokens ==
    << "swapExactETHForTokens",
       "swapExactETHForTokensSupportingFeeOnTransferTokens" >>

ExactInTokensForTokens ==
    << "swapExactTokensForTokens",
       "swapExactTokensForTokensSupportingFeeOnTransferTokens" >>

Unsupported ==
    << "addLiquidity",
       "addLiquidityETH",
       "removeLiquidity",
       "removeLiquidityETH",
       "removeLiquidityETHWithPermit",
       "removeLiquidityETHSupportingFeeOnTransferTokens",
       "removeLiquidityETHWithPermitSupportingFeeOnTransferTokens",
       "removeLiquidityWithPermit",
       "swapExactTokensForTokensSupportingFeeOnTransferTokens",
       "swapExactETHForTokensSupportingFeeOnTransferTokens",
       "swapExactTokensForETHSupportingFeeOnTransferTokens" >>

NoOp == << "refundETH", "selfPermit", "selfPermitAllowed", "unwrapWETH9" >>

\* Membership tests of the three exact-output branches.  Each right-hand
\* side in the source is a parenthesised string, so `in` is substring search.
InExactETHOut(name) == StrIn(name, "swapTokensForExactETH")
InExactTokensOut(name) == StrIn(name, "swapTokensForExactTokens")
InETHForExactOut(name) == StrIn(name, "swapETHForExactTokens")

\* The branch of simulate's if / elif chain that a function name takes.
Branch(name) ==
    IF TupleIn(name, ExactInTokensForETH) THEN "v2_exact_in"
    ELSE IF TupleIn(name, ExactInETHForTokens) THEN "v2_exact_in_eth"
    ELSE IF TupleIn(name, ExactInTokensForTokens) THEN "v2_exact_in"
    ELSE IF InExactETHOut(name) THEN "v2_exact_out"
    ELSE IF InExactTokensOut(name) THEN "v2_exact_out"
    ELSE IF InETHForExactOut(name) THEN "v2_exact_out_eth"
    ELSE IF name = "multicall" THEN "multicall"
    ELSE IF name = "exactInputSingle" THEN "exactInputSingle"
    ELSE IF name = "exactInput" THEN "exactInput"
    ELSE IF name = "exactOutputSingle" THEN "exactOutputSingle"
    ELSE IF name = "exactOutput" THEN "exactOutput"
    ELSE IF TupleIn(name, Unsupported) THEN "todo"
    ELSE IF TupleIn(name, NoOp) THEN "ignore"
    ELSE "unhandled"

\* Every name that some branch of the dispatcher lists.
ListedNames ==
    {ExactInTokensForETH[i] : i \in DOMAIN ExactInTokensForETH}
    \cup {ExactInETHForTokens[i] : i \in DOMAIN ExactInETHForTokens}
    \cup {ExactInTokensForTokens[i] : i \in DOMAIN ExactInTokensForTokens}
    \cup {"swapTokensForExactETH", "swapTokensForExactTokens",
          "swapETHForExactTokens"}
    \cup {"multicall", "exactInputSingle", "exactInput",
          "exactOutputSingle", "exactOutput"}
    \cup {Unsupported[i] : i \in DOMAIN Unsupported}
    \cup {NoOp[i] : i \in DOMAIN NoOp}

----------------------------------------------------------------------------
(* Tokens, pools and the external collaborators' answers.                  *)

Tokens == {1, 2, 3}

\* the 20 bytes of a token's address
AddressOf(t) == [i \in 1..AddressBytes |-> (16 * t + (i % 16)) % 256]

\* the token's address as the routers' parameters carry it
Addr == [t \in Tokens |-> Hex(AddressOf(t))]

\* 3 big-endian bytes of a fee tier
FeeSegment(f) == << (f \div 65536) % 256, (f \div 256) % 256, f % 256 >>

\* address order, as the factories order a pool's two tokens
RECURSIVE HexLess(_, _)
HexLess(a, b) ==
    IF Len(a) = 0 \/ Len(b) = 0 THEN Len(a) < Len(b)
    ELSE IF SubSeq(a, 1, 1) = SubSeq(b, 1, 1)
         THEN HexLess(SubSeq(a, 2, Len(a)), SubSeq(b, 2, Len(b)))
         ELSE HexValue(SubSeq(a, 1, 1)) < HexValue(SubSeq(b, 1, 1))

\* The pool object the V2 pool manager hands out for a token pair.
V2Pool(a, b) ==
    [kind |-> "v2", fee |-> 3000,
     token0 |-> IF HexLess(a, b) THEN a ELSE b,
     token1 |-> IF HexLess(a, b) THEN b ELSE a]

\* The pool object the V3 pool manager hands out for a token pair and fee.
V3Pool(a, b, fee) ==
    [kind |-> "v3", fee |-> fee,
     token0 |-> IF HexLess(a, b) THEN a ELSE b,
     token1 |-> IF HexLess(a, b) THEN b ELSE a]

V2Pools == {V2Pool(Addr[a], Addr[b]) : a, b \in Tokens} \ 
           {V2Pool(Addr[a], Addr[a]) : a \in Tokens}

\* What a V2 pool's simulate_swap may answer: each reserve of the predicted
\* state differs from the live one by one of these amounts.
ReserveMoves == {-2, -1, 0, 1, 2}

V2Responses(current) ==
    {[reserves_token0 |-> current.reserves_token0 + d0,
      reserves_token1 |-> current.reserves_token1 + d1] :
        d0 \in ReserveMoves, d1 \in ReserveMoves}

\* What a V3 pool's simulate_swap may answer: the signed deltas (swap_info,
\* positive for the token that entered the pool, negative for the token
\* that left it) with the predicted state, or an EVM revert.
V3Responses ==
    {[revert |-> FALSE,
      swap_info |-> [amount0_delta |-> d[1], amount1_delta |-> d[2]],
      final_state |-> [liquidity |-> 1000, sqrt_price_x96 |-> 1,
                       tick |-> d[1] - d[2]]] :
        d \in {<<entered, 0 - left>> : entered \in {1, 2, 3}, left \in {1, 3}}
               \cup
               {<<0 - left, entered>> : entered \in {1, 2, 3}, left \in {1, 3}}}
    \cup
    {[revert |-> TRUE,
      swap_info |-> [amount0_delta |-> 0, amount1_delta |-> 0],
      final_state |-> [liquidity |-> 0, sqrt_price_x96 |-> 0, tick |-> 0]]}

----------------------------------------------------------------------------
(* The transactions the model is run on.                                   *)

\* The constructor: the fields of a transaction (lines 93-103).
Transaction(name, params, value) ==
    [hash |-> "0xabc", nonce |-> 7, value |-> value,
     func_name |-> name, func_params |-> params,
     func_deadline |-> Get(params, "deadline"),
     func_previous_block_hash |-> Get(params, "previousBlockhash")]

\* A token route of k addresses, walked up or down.
Route(k) == [i \in 1..k |-> Addr[((i - 1) % Cardinality(Tokens)) + 1]]
Reverse(s) == [i \in 1..Len(s) |-> s[Len(s) + 1 - i]]

V2Paths ==
    {Route(k) : k \in 2..MaxPath} \cup {Reverse(Route(k)) : k \in 2..MaxPath}

V2Transactions ==
    {Transaction(n, [amountIn |-> 3, amountOutMin |-> 2, path |-> p,
                     to |-> "0xto", deadline |-> 9], 0) :
        n \in {"swapExactTokensForETH",
               "swapExactTokensForETHSupportingFeeOnTransferTokens",
               "swapExactTokensForTokens",
               "swapExactTokensForTokensSupportingFeeOnTransferTokens"},
        p \in V2Paths}
    \cup
    {Transaction(n, [amountOutMin |-> 2, path |-> p,
                     to |-> "0xto", deadline |-> 9], 4) :
        n \in {"swapExactETHForTokens",
               "swapExactETHForTokensSupportingFeeOnTransferTokens"},
        p \in V2Paths}
    \cup
    {Transaction(n, [amountOut |-> 3, amountInMax |-> 2, path |-> p,
                     to |-> "0xto", deadline |-> 9], 0) :
        n \in {"swapTokensForExactETH", "swapTokensForExactTokens"},
        p \in V2Paths}
    \cup
    {Transaction("swapETHForExactTokens",
                 [amountOut |-> 3, path |-> p,
                  to |-> "0xto", deadline |-> 9], 4) :
        p \in V2Paths}

\* Calls that move no reserves, calls the dispatcher does not simulate yet,
\* and calls it does not list.
UnlistedNames ==
    {"", "ETH", "swap", "swapTokensForExact", "exactInputSingl",
     "transfer", "sweepToken", "Multicall"}

OtherTransactions ==
    {Transaction(Unsupported[i], [deadline |-> 9], 0) : i \in 1..8}
    \cup {Transaction(NoOp[i], <<>>, 0) : i \in DOMAIN NoOp}
    \cup {Transaction(n, <<>>, 0) : n \in UnlistedNames}
    \cup {Transaction(n, [amountOut |-> 3, amountInMax |-> 0,
                          path |-> Route(2), to |-> "0xto",
                          deadline |-> 9], 0) : n \in UnlistedNames}

----------------------------------------------------------------------------
(* Outcomes of an activation.                                              *)

Running == [kind |-> "none", value |-> <<>>, exc |-> NoExc]
Returned(v) == [kind |-> "return", value |-> v, exc |-> NoExc]
Raised(e) == [kind |-> "raise", value |-> <<>>, exc |-> e]

\* The except clause that closes simulate's try block: LiquidityPoolError
\* and ValueError leave as TransactionError, anything else leaves as it is.
Wrap(e) ==
    IF e.type \in {"LiquidityPoolError", "ValueError"}
    THEN Exc("TransactionError", e.why)
    ELSE e

\* One request to a pool's simulate_swap and what the pool answered (None
\* when it raised).
SwapCall(pool, side, token, quantity, driver, answer) ==
    [pool |-> pool, side |-> side, token |-> token, quantity |-> quantity,
     driver |-> driver, answer |-> answer]

\* A Future State Entry.
Entry(pool, state) == [pool |-> pool, state |-> state]

----------------------------------------------------------------------------
(* The V2 drivers.                                                         *)

HopIdle ==
    [i |-> 0, unwrapped_input |-> FALSE, token_in |-> "", token_out |-> "",
     token_in_quantity |-> None, token_out_quantity |-> None,
     swap_in_quantity |-> None, swap_out_quantity |-> None,
     future_pool_states |-> <<>>]

\* A variant of ExactInQuantity that does not thread: every hop is simulated
\* with the caller's quantity.
ExactInQuantityUnthreaded(i, swap_in_quantity, token_out_quantity) ==
    swap_in_quantity

\* v2_swap_exact_in: the quantity a hop is simulated with.
ExactInQuantity(i, swap_in_quantity, token_out_quantity) ==
    IF i = 0 THEN swap_in_quantity ELSE token_out_quantity

\* A variant of ExactInDerived that picks a side when no reserve fell.
ExactInDerivedPicksASide(current, future) ==
    IF future.reserves_token0 < current.reserves_token0
    THEN Some(current.reserves_token0 - future.reserves_token0)
    ELSE Some(current.reserves_token1 - future.reserves_token1)

\* v2_swap_exact_in: the output a hop's answer implies, None when no reserve
\* fell (the driver then raises ValueError).
ExactInDerived(current, future) ==
    IF future.reserves_token0 < current.reserves_token0
    THEN Some(current.reserves_token0 - future.reserves_token0)
    ELSE IF future.reserves_token1 < current.reserves_token1
    THEN Some(current.reserves_token1 - future.reserves_token1)
    ELSE None

\* v2_swap_exact_out: the quantity a hop is simulated with.
ExactOutQuantity(i, swap_out_quantity, token_out_quantity) ==
    IF i = 0 THEN swap_out_quantity ELSE token_out_quantity

\* v2_swap_exact_out: the input a hop's answer implies, None when no reserve
\* rose (the driver then raises ValueError).
ExactOutDerived(current, future) ==
    IF future.reserves_token0 > current.reserves_token0
    THEN Some(future.reserves_token0 - current.reserves_token0)
    ELSE IF future.reserves_token1 > current.reserves_token1
    THEN Some(future.reserves_token1 - current.reserves_token1)
    ELSE None

\* The other token of a pool.
OtherToken(pool, token) ==
    IF token = pool.token1 THEN pool.token0 ELSE pool.token1

\* An activation ends: it returns or raises through simulate's except clause.
Leave(outcome) ==
    /\ pc' = "return"
    /\ ret' = outcome

\* v2_swap_exact_in, the pool resolution loop and the set-up that follows it:
\* one pair of the path per step.
V2ExactInGetPool ==
    /\ pc = "v2_in_pools"
    /\ UNCHANGED <<tx, args, pools, func_name, func_params, future_state,
                   v3, dec, enc, mstack, calls>>
    /\ LET path == Get(func_params, "path")
           n == Len(pool_objects)
       IN IF IsNone(path)
          THEN /\ Leave(Raised(Wrap(Exc("TypeError", "pairwise"))))
               /\ UNCHANGED <<pool_objects, hop>>
          ELSE IF n + 1 < Len(Val(path))
          THEN \E found \in BOOLEAN :
                 IF found
                 THEN /\ pool_objects' =
                           Append(pool_objects,
                                  V2Pool(Val(path)[n + 1], Val(path)[n + 2]))
                      /\ UNCHANGED <<pc, ret, hop>>
                 ELSE /\ Leave(Raised(Wrap(Exc("TransactionError", "pool"))))
                      /\ UNCHANGED <<pool_objects, hop>>
          ELSE /\ hop' = [hop EXCEPT
                            !.i = 0,
                            !.token_in = Val(path)[1],
                            !.token_out = Val(path)[Len(Val(path))],
                            !.swap_in_quantity =
                                IF hop.unwrapped_input
                                THEN Some(tx.value)
                                ELSE Get(func_params, "amountIn"),
                            !.future_pool_states = <<>>]
               /\ pc' = "v2_in_loop"
               /\ UNCHANGED <<pool_objects, ret>>

\* v2_swap_exact_in, the simulation loop: one pool per step, then the return
\* into simulate, which extends future_state and returns it.
V2ExactInHop ==
    /\ pc = "v2_in_loop"
    /\ UNCHANGED <<tx, args, pools, func_name, func_params, pool_objects,
                   v3, dec, enc, mstack>>
    /\ IF hop.i = Len(pool_objects)
       THEN /\ future_state' = future_state \o hop.future_pool_states
            /\ Leave(Returned(future_state'))
            /\ UNCHANGED <<hop, calls>>
       ELSE LET v2_pool == pool_objects[hop.i + 1]
                token_in_quantity ==
                    ExactInQuantity(hop.i, hop.swap_in_quantity,
                                    hop.token_out_quantity)
                token_in == IF hop.i = 0 THEN hop.token_in ELSE hop.token_out
                token_out == OtherToken(v2_pool, token_in)
                current_state == pools[v2_pool]
            IN \E next_state \in V2Responses(current_state) :
                 /\ calls' = Append(calls,
                                    SwapCall(v2_pool, "token_in", token_in,
                                             token_in_quantity,
                                             "v2_swap_exact_in",
                                             Some(next_state)))
                 /\ UNCHANGED future_state
                 /\ IF IsNone(ExactInDerived(current_state, next_state))
                    THEN /\ Leave(Raised(Wrap(Exc("ValueError", "direction"))))
                         /\ hop' = [hop EXCEPT
                                      !.token_in_quantity = token_in_quantity,
                                      !.token_in = token_in,
                                      !.token_out = token_out]
                    ELSE /\ hop' = [hop EXCEPT
                                      !.i = hop.i + 1,
                                      !.token_in_quantity = token_in_quantity,
                                      !.token_in = token_in,
                                      !.token_out = token_out,
                                      !.token_out_quantity =
                                          ExactInDerived(current_state,
                                                         next_state),
                                      !.future_pool_states =
                                          Append(hop.future_pool_states,
                                                 Entry(v2_pool, next_state))]
                         /\ UNCHANGED <<pc, ret>>

\* v2_swap_exact_out, the pool resolution loop and the set-up that follows it.
V2ExactOutGetPool ==
    /\ pc = "v2_out_pools"
    /\ UNCHANGED <<tx, args, pools, func_name, func_params, future_state,
                   v3, dec, enc, mstack, calls>>
    /\ LET path == Get(func_params, "path")
           n == Len(pool_objects)
       IN IF IsNone(path)
          THEN /\ Leave(Raised(Wrap(Exc("TypeError", "pairwise"))))
               /\ UNCHANGED <<pool_objects, hop>>
          ELSE IF n + 1 < Len(Val(path))
          THEN \E found \in BOOLEAN :
                 IF found
                 THEN /\ pool_objects' =
                           Append(pool_objects,
                                  V2Pool(Val(path)[n + 1], Val(path)[n + 2]))
                      /\ UNCHANGED <<pc, ret, hop>>
                 ELSE /\ Leave(Raised(Wrap(Exc("TransactionError", "pool"))))
                      /\ UNCHANGED <<pool_objects, hop>>
          ELSE /\ hop' = [hop EXCEPT
                            !.i = 0,
                            !.token_in = Val(path)[1],
                            !.token_out = Val(path)[Len(Val(path))],
                            !.swap_out_quantity = Get(func_params, "amountOut"),
                            !.swap_in_quantity =
                                IF hop.unwrapped_input
                                THEN Some(tx.value)
                                ELSE None,
                            !.future_pool_states = <<>>]
               /\ pc' = "v2_out_loop"
               /\ UNCHANGED <<pool_objects, ret>>

\* v2_swap_exact_out, the simulation loop over the pools in reverse: one pool
\* per step, then the return into simulate.
V2ExactOutHop ==
    /\ pc = "v2_out_loop"
    /\ UNCHANGED <<tx, args, pools, func_name, func_params, pool_objects,
                   v3, dec, enc, mstack>>
    /\ IF hop.i = Len(pool_objects)
       THEN /\ future_state' = future_state \o hop.future_pool_states
            /\ Leave(Returned(future_state'))
            /\ UNCHANGED <<hop, calls>>
       ELSE LET pool == Reverse(pool_objects)[hop.i + 1]
                token_out_quantity ==
                    ExactOutQuantity(hop.i, hop.swap_out_quantity,
                                     hop.token_out_quantity)
                token_out == IF hop.i = 0 THEN hop.token_out ELSE hop.token_in
                token_in == OtherToken(pool, token_out)
                current_state == pools[pool]
            IN \E next_state \in V2Responses(current_state) :
                 /\ calls' = Append(calls,
                                    SwapCall(pool, "token_out", token_out,
                                             token_out_quantity,
                                             "v2_swap_exact_out",
                                             Some(next_state)))
                 /\ UNCHANGED future_state
                 /\ IF IsNone(ExactOutDerived(current_state, next_state))
                    THEN /\ Leave(Raised(Wrap(Exc("ValueError", "direction"))))
                         /\ hop' = [hop EXCEPT
                                      !.token_out_quantity = token_out_quantity,
                                      !.token_in = token_in,
                                      !.token_out = token_out]
                    ELSE /\ hop' = [hop EXCEPT
                                      !.i = hop.i + 1,
                                      !.token_out_quantity = token_out_quantity,
                                      !.token_in = token_in,
                                      !.token_out = token_out,
                                      !.token_in_quantity =
                                          ExactOutDerived(current_state,
                                                          next_state),
                                      !.future_pool_states =
                                          Append(hop.future_pool_states,
                                                 Entry(pool, next_state))]
                         /\ UNCHANGED <<pc, ret>>

----------------------------------------------------------------------------
(* The V3 single-hop drivers.                                              *)

V3Idle ==
    [bound |-> FALSE, tokenIn |-> "", tokenOut |-> "", fee |-> 0,
     amount |-> 0, limit |-> None, sqrtPriceLimitX96 |-> None,
     swap_info |-> None, amountIn |-> None]

\* The three try blocks that take params["params"] apart by its arity:
\* 8 fields (Router), 7 fields (Router2), 4 fields (a hop of an encoded
\* path).  A tuple of any other arity leaves the names unbound.
V3Unpack(params) ==
    LET p == Get(params, "params")
        n == IF IsNone(p) THEN 0 ELSE Len(Val(p))
        t == Val(p)
    IN IF n = 8
       THEN [V3Idle EXCEPT !.bound = TRUE, !.tokenIn = t[1],
                           !.tokenOut = t[2], !.fee = t[3], !.amount = t[6],
                           !.limit = Some(t[7]),
                           !.sqrtPriceLimitX96 = Some(t[8])]
       ELSE IF n = 7
       THEN [V3Idle EXCEPT !.bound = TRUE, !.tokenIn = t[1],
                           !.tokenOut = t[2], !.fee = t[3], !.amount = t[5],
                           !.limit = Some(t[6]),
                           !.sqrtPriceLimitX96 = Some(t[7])]
       ELSE IF n = 4
       THEN [V3Idle EXCEPT !.bound = TRUE, !.tokenIn = t[1],
                           !.tokenOut = t[2], !.fee = t[3], !.amount = t[4]]
       ELSE V3Idle

\* What a driver hands back: its outcome, the simulate_swap request it made
\* (if it got that far) and its locals.
DriverResult(outcome, call, locals) ==
    [ret |-> outcome, call |-> call, locals |-> locals]

\* v3_swap_exact_in, given the pool manager's and the pool's answers.
V3SwapExactIn(params, found, resp) ==
    LET u == V3Unpack(params)
        v3_pool == V3Pool(u.tokenIn, u.tokenOut, u.fee)
        call == SwapCall(v3_pool, "token_in", u.tokenIn, Some(u.amount),
                         "v3_swap_exact_in",
                         IF resp.revert THEN None ELSE Some(resp))
    IN IF ~u.bound
       THEN DriverResult(Raised(Exc("NameError", "tokenIn")), None, u)
       ELSE IF ~found
       THEN DriverResult(Raised(Exc("TransactionError", "pool")), None, u)
       ELSE IF resp.revert
       THEN DriverResult(Raised(Exc("TransactionError", "revert")),
                         Some(call), u)
       ELSE DriverResult(Returned(<< Entry(v3_pool, resp.final_state) >>),
                         Some(call),
                         [u EXCEPT !.swap_info = Some(resp.swap_info)])

\* v3_swap_exact_out: the test that guards its slippage error.
ExactOutRejects(amountInMaximum, amountIn) ==
    /\ ~IsNone(amountInMaximum)
    /\ Val(amountInMaximum) # 0
    /\ amountIn < Val(amountInMaximum)

\* v3_swap_exact_out, given the pool manager's and the pool's answers.
V3SwapExactOut(params, found, resp) ==
    LET u == V3Unpack(params)
        v3_pool == V3Pool(u.tokenIn, u.tokenOut, u.fee)
        call == SwapCall(v3_pool, "token_out", u.tokenOut, Some(u.amount),
                         "v3_swap_exact_out",
                         IF resp.revert THEN None ELSE Some(resp))
        amountIn == Max2(resp.swap_info.amount0_delta,
                         resp.swap_info.amount1_delta)
    IN IF ~u.bound
       THEN DriverResult(Raised(Exc("NameError", "tokenIn")), None, u)
       ELSE IF ~found
       THEN DriverResult(Raised(Exc("TransactionError", "pool")), None, u)
       ELSE IF resp.revert
       THEN DriverResult(Raised(Exc("TransactionError", "revert")),
                         Some(call), u)
       ELSE IF ExactOutRejects(u.limit, amountIn)
       THEN DriverResult(Raised(Exc("TransactionError", "slippage")),
                         Some(call),
                         [u EXCEPT !.swap_info = Some(resp.swap_info),
                                   !.amountIn = Some(amountIn)])
       ELSE DriverResult(Returned(<< Entry(v3_pool, resp.final_state) >>),
                         Some(call),
                         [u EXCEPT !.swap_info = Some(resp.swap_info),
                                   !.amountIn = Some(amountIn)])

\* The log of simulate_swap requests after a driver ran.
Logged(r) == IF IsNone(r.call) THEN calls ELSE Append(calls, Val(r.call))

\* simulate's exactInputSingle branch.
ExactInputSingle ==
    /\ pc = "exactInputSingle"
    /\ UNCHANGED <<tx, args, pools, func_name, func_params, pool_objects,
                   hop, dec, enc, mstack>>
    /\ \E found \in BOOLEAN, resp \in V3Responses :
         LET r == V3SwapExactIn(func_params, found, resp)
         IN /\ v3' = r.locals
            /\ calls' = Logged(r)
            /\ IF r.ret.kind = "return"
               THEN /\ future_state' = future_state \o r.ret.value
                    /\ Leave(Returned(future_state'))
               ELSE /\ Leave(Raised(Wrap(r.ret.exc)))
                    /\ UNCHANGED future_state

\* simulate's exactOutputSingle branch.
ExactOutputSingle ==
    /\ pc = "exactOutputSingle"
    /\ UNCHANGED <<tx, args, pools, func_name, func_params, pool_objects,
                   hop, dec, enc, mstack>>
    /\ \E found \in BOOLEAN, resp \in V3Responses :
         LET r == V3SwapExactOut(func_params, found, resp)
         IN /\ v3' = r.locals
            /\ calls' = Logged(r)
            /\ IF r.ret.kind = "return"
               THEN /\ future_state' = future_state \o r.ret.value
                    /\ Leave(Returned(future_state'))
               ELSE /\ Leave(Raised(Wrap(r.ret.exc)))
                    /\ UNCHANGED future_state

----------------------------------------------------------------------------
(* The encoded-path branches: exactInput and exactOutput.                  *)

DecIdle ==
    [bound |-> FALSE, deadline_bound |-> FALSE, path |-> <<>>,
     amount |-> 0, limit |-> 0,
     path_pos |-> 0, turn |-> 0, decoded |-> <<>>]

EncIdle == [token_pos |-> 0, swap_info |-> None]

\* The two try blocks that take params["params"] apart: 5 fields (Router,
\* with a deadline) or 4 fields (Router2, without).
PathUnpack(params) ==
    LET p == Get(params, "params")
        n == IF IsNone(p) THEN 0 ELSE Len(Val(p))
        t == Val(p)
    IN IF n = 5
       THEN [DecIdle EXCEPT !.bound = TRUE, !.deadline_bound = TRUE,
                            !.path = t[1], !.amount = t[4], !.limit = t[5]]
       ELSE IF n = 4
       THEN [DecIdle EXCEPT !.bound = TRUE,
                            !.path = t[1], !.amount = t[3], !.limit = t[4]]
       ELSE DecIdle

\* itertools.cycle((20, 3)): the width read at a turn of the decode loop.
ByteLength(turn) == IF turn % 2 = 0 THEN AddressBytes ELSE FeeBytes

\* The decode loop leaves at this test.
DecodeBreaks(d) == d.path_pos = Len(d.path)

\* A variant of DecodeTurn whose slice stops one byte short.
DecodeTurnShortSlice(d) ==
    LET byte_length == ByteLength(d.turn)
        chunk == SubSeq(d.path, d.path_pos + 1,
                        d.path_pos + byte_length - 1)
    IN [d EXCEPT
          !.decoded =
              IF Len(d.path) >= d.path_pos + byte_length
              THEN IF byte_length = AddressBytes
                   THEN Append(d.decoded, Hex(chunk))
                   ELSE Append(d.decoded, IntBase16(Hex(chunk)))
              ELSE d.decoded,
          !.path_pos = d.path_pos + byte_length,
          !.turn = d.turn + 1]

\* One turn of the decode loop that does not leave it.
DecodeTurn(d) ==
    LET byte_length == ByteLength(d.turn)
        chunk == SubSeq(d.path, d.path_pos + 1, d.path_pos + byte_length)
    IN [d EXCEPT
          !.decoded =
              IF Len(d.path) >= d.path_pos + byte_length
              THEN IF byte_length = AddressBytes
                   THEN Append(d.decoded, Hex(chunk))
                   ELSE Append(d.decoded, IntBase16(Hex(chunk)))
              ELSE d.decoded,
          !.path_pos = d.path_pos + byte_length,
          !.turn = d.turn + 1]

\* One turn of the decode loop with the cursor more than MaxOverrun bytes
\* past the end: nothing is sliced and the cursor, which a turn only adds
\* to, stays past the end; it is followed no further, only the phase of
\* the cycle is.
DecodeTurnBeyond(d) ==
    [d EXCEPT !.turn = IF d.turn % 2 = 0 THEN d.turn + 1 ELSE d.turn - 1]

\* range(0, len(decoded) - 2, 2) still has token_pos in it
HopsLeft(decoded, token_pos) == token_pos < Len(decoded) - 2

\* v3_pool, swap_info, pool_state = <what a single-hop driver returned>:
\* the three values, or None when the list does not hold three (ValueError).
UnpackThree(returned) == IF Len(returned) = 3 THEN Some(returned) ELSE None

\* simulate's exactInput branch, the decode loop: one turn per step.  After
\* the loop come the diagnostics, which read the deadline.
ExactInputDecode ==
    /\ pc = "exactInput_decode"
    /\ UNCHANGED <<tx, args, pools, func_name, func_params, future_state,
                   pool_objects, hop, v3, mstack, calls>>
    /\ IF ~dec.bound
       THEN /\ Leave(Raised(Wrap(Exc("NameError", "path"))))
            /\ UNCHANGED <<dec, enc>>
       ELSE IF DecodeBreaks(dec)
       THEN IF ~args.silent /\ ~dec.deadline_bound
            THEN /\ Leave(Raised(Wrap(Exc("NameError", "deadline"))))
                 /\ UNCHANGED <<dec, enc>>
            ELSE /\ pc' = "exactInput_hops"
                 /\ enc' = EncIdle
                 /\ UNCHANGED <<dec, ret>>
       ELSE /\ dec' = IF dec.path_pos <= Len(dec.path) + MaxOverrun
                       THEN DecodeTurn(dec)
                       ELSE DecodeTurnBeyond(dec)
            /\ UNCHANGED <<pc, ret, enc>>

\* simulate's exactInput branch, the loop over the decoded triples: one
\* triple per step, then the return.
ExactInputHop ==
    /\ pc = "exactInput_hops"
    /\ UNCHANGED <<tx, args, pools, func_name, func_params, pool_objects,
                   hop, dec, mstack>>
    /\ IF ~HopsLeft(dec.decoded, enc.token_pos)
       THEN /\ Leave(Returned(future_state))
            /\ UNCHANGED <<future_state, v3, enc, calls>>
       ELSE IF enc.token_pos # 0 /\ IsNone(enc.swap_info)
       THEN /\ Leave(Raised(Wrap(Exc("NameError", "swap_info"))))
            /\ UNCHANGED <<future_state, v3, enc, calls>>
       ELSE \E found \in BOOLEAN, resp \in V3Responses :
         LET tokenIn == dec.decoded[enc.token_pos + 1]
             fee == dec.decoded[enc.token_pos + 2]
             tokenOut == dec.decoded[enc.token_pos + 3]
             quantity ==
                 IF enc.token_pos = 0
                 THEN dec.amount
                 ELSE Min2(Val(enc.swap_info).amount0_delta,
                           Val(enc.swap_info).amount1_delta)
             r == V3SwapExactIn(
                      [params |-> <<tokenIn, tokenOut, fee, quantity>>],
                      found, resp)
             three == IF r.ret.kind = "return"
                      THEN UnpackThree(r.ret.value)
                      ELSE None
         IN /\ v3' = r.locals
            /\ calls' = Logged(r)
            /\ IF r.ret.kind = "raise"
               THEN /\ Leave(Raised(Wrap(r.ret.exc)))
                    /\ UNCHANGED <<future_state, enc>>
               ELSE IF IsNone(three)
               THEN /\ Leave(Raised(Wrap(Exc("ValueError", "unpack"))))
                    /\ UNCHANGED <<future_state, enc>>
               ELSE /\ future_state' =
                         Append(future_state,
                                Entry(Val(three)[1], Val(three)[3]))
                    /\ enc' = [token_pos |-> enc.token_pos + 2,
                               swap_info |-> Some(Val(three)[2])]
                    /\ UNCHANGED <<pc, ret>>

\* simulate's exactOutput branch, the decode loop.
ExactOutputDecode ==
    /\ pc = "exactOutput_decode"
    /\ UNCHANGED <<tx, args, pools, func_name, func_params, future_state,
                   pool_objects, hop, v3, mstack, calls>>
    /\ IF ~dec.bound
       THEN /\ Leave(Raised(Wrap(Exc("NameError", "path"))))
            /\ UNCHANGED <<dec, enc>>
       ELSE IF DecodeBreaks(dec)
       THEN IF ~args.silent /\ ~dec.deadline_bound
            THEN /\ Leave(Raised(Wrap(Exc("NameError", "deadline"))))
                 /\ UNCHANGED <<dec, enc>>
            ELSE /\ pc' = "exactOutput_hops"
                 /\ enc' = EncIdle
                 /\ UNCHANGED <<dec, ret>>
       ELSE /\ dec' = IF dec.path_pos <= Len(dec.path) + MaxOverrun
                       THEN DecodeTurn(dec)
                       ELSE DecodeTurnBeyond(dec)
            /\ UNCHANGED <<pc, ret, enc>>

\* simulate's exactOutput branch, the loop over the decoded triples.
ExactOutputHop ==
    /\ pc = "exactOutput_hops"
    /\ UNCHANGED <<tx, args, pools, func_name, func_params, pool_objects,
                   hop, dec, mstack>>
    /\ IF ~HopsLeft(dec.decoded, enc.token_pos)
       THEN /\ Leave(Returned(future_state))
            /\ UNCHANGED <<future_state, v3, enc, calls>>
       ELSE IF enc.token_pos # 0 /\ IsNone(enc.swap_info)
       THEN /\ Leave(Raised(Wrap(Exc("NameError", "swap_info"))))
            /\ UNCHANGED <<future_state, v3, enc, calls>>
       ELSE \E found \in BOOLEAN, resp \in V3Responses :
         LET tokenOut == dec.decoded[enc.token_pos + 1]
             fee == dec.decoded[enc.token_pos + 2]
             tokenIn == dec.decoded[enc.token_pos + 3]
             quantity ==
                 IF enc.token_pos = 0
                 THEN dec.amount
                 ELSE Max2(Val(enc.swap_info).amount0_delta,
                           Val(enc.swap_info).amount1_delta)
             r == V3SwapExactOut(
                      [params |-> <<tokenIn, tokenOut, fee, quantity>>],
                      found, resp)
             three == IF r.ret.kind = "return"
                      THEN UnpackThree(r.ret.value)
                      ELSE None
         IN /\ v3' = r.locals
            /\ calls' = Logged(r)
            /\ IF r.ret.kind = "raise"
               THEN /\ Leave(Raised(Wrap(r.ret.exc)))
                    /\ UNCHANGED <<future_state, enc>>
               ELSE IF IsNone(three)
               THEN /\ Leave(Raised(Wrap(Exc("ValueError", "unpack"))))
                    /\ UNCHANGED <<future_state, enc>>
               ELSE /\ future_state' =
                         Append(future_state,
                                Entry(Val(three)[1], Val(three)[3]))
                    /\ enc' = [token_pos |-> enc.token_pos + 2,
                               swap_info |-> Some(Val(three)[2])]
                    /\ UNCHANGED <<pc, ret>>

----------------------------------------------------------------------------
(* simulate's entry and dispatch, and simulate_multicall.                  *)

\* An activation of simulate_multicall together with the activation of
\* simulate that called it and waits for it.
Frame(name, params, arguments) ==
    [func_name |-> name, func_params |-> params, args |-> arguments,
     i |-> 0, payload |-> None, future_state |-> <<>>]

\* The two try blocks that decode a payload: the Router ABI assigns first,
\* the Router2 ABI assigns over it; when neither decodes, payload_func and
\* payload_args keep what the previous payload left in them.
DecodePayload(payload, previous) ==
    IF ~IsNone(payload.router2) THEN payload.router2
    ELSE IF ~IsNone(payload.router) THEN payload.router
    ELSE previous

\* A variant of Defaults that stores the arguments in the transaction.
DefaultsStored(self, a) ==
    LET name == IF IsNone(a.func_name) THEN self.func_name
                ELSE Val(a.func_name)
        params == IF IsNone(a.func_params) THEN self.func_params
                  ELSE Val(a.func_params)
    IN [func_name |-> name, func_params |-> params,
        self |-> [self EXCEPT !.func_name = name, !.func_params = params]]

\* simulate's defaults: an argument left None takes the transaction's own
\* field; the names bound are locals, the transaction is only read.
Defaults(self, a) ==
    [func_name |-> IF IsNone(a.func_name) THEN self.func_name
                   ELSE Val(a.func_name),
     func_params |-> IF IsNone(a.func_params) THEN self.func_params
                     ELSE Val(a.func_params),
     self |-> self]

\* simulate, from its entry to the branch taken: the defaults of func_name
\* and func_params, the dispatch on the name, and for the branches that do
\* no more than that, the return.
Simulate ==
    /\ pc = "call"
    /\ UNCHANGED <<args, pools, calls>>
    /\ LET d == Defaults(tx, args)
           name == d.func_name
           params == d.func_params
           branch == Branch(name)
       IN /\ tx' = d.self
          /\ func_name' = name
          /\ func_params' = params
          /\ future_state' = <<>>
          /\ pool_objects' = <<>>
          /\ hop' = [HopIdle EXCEPT
                       !.unwrapped_input =
                           branch \in {"v2_exact_in_eth", "v2_exact_out_eth"}]
          /\ v3' = V3Idle
          /\ enc' = EncIdle
          /\ dec' = IF branch \in {"exactInput", "exactOutput"}
                    THEN PathUnpack(params)
                    ELSE DecIdle
          /\ IF branch \in {"v2_exact_in", "v2_exact_in_eth"}
             THEN pc' = "v2_in_pools" /\ ret' = Running /\ UNCHANGED mstack
             ELSE IF branch \in {"v2_exact_out", "v2_exact_out_eth"}
             THEN pc' = "v2_out_pools" /\ ret' = Running /\ UNCHANGED mstack
             ELSE IF branch = "multicall"
             THEN IF Len(mstack) >= MaxDepth
                  THEN /\ Leave(Raised(Wrap(Exc("RecursionError", "depth"))))
                       /\ UNCHANGED mstack
                  ELSE IF IsNone(Get(tx.func_params, "data"))
                  THEN /\ Leave(Raised(Wrap(Exc("TypeError", "data"))))
                       /\ UNCHANGED mstack
                  ELSE /\ mstack' = Append(mstack, Frame(name, params, args))
                       /\ pc' = "multicall"
                       /\ ret' = Running
             ELSE IF branch = "exactInputSingle"
             THEN pc' = "exactInputSingle" /\ ret' = Running
                  /\ UNCHANGED mstack
             ELSE IF branch = "exactInput"
             THEN pc' = "exactInput_decode" /\ ret' = Running
                  /\ UNCHANGED mstack
             ELSE IF branch = "exactOutputSingle"
             THEN pc' = "exactOutputSingle" /\ ret' = Running
                  /\ UNCHANGED mstack
             ELSE IF branch = "exactOutput"
             THEN pc' = "exactOutput_decode" /\ ret' = Running
                  /\ UNCHANGED mstack
             ELSE /\ Leave(Returned(<<>>))
                  /\ UNCHANGED mstack

\* The activation of simulate that waits on the top frame runs again.
Resume(f) ==
    /\ mstack' = SubSeq(mstack, 1, Len(mstack) - 1)
    /\ func_name' = f.func_name
    /\ func_params' = f.func_params
    /\ args' = f.args

\* simulate_multicall, one payload: decode it and call simulate on it.
MulticallPayload ==
    /\ pc = "multicall"
    /\ UNCHANGED <<tx, pools, pool_objects, hop, v3, dec, enc, calls>>
    /\ LET f == mstack[Len(mstack)]
           data == tx.func_params.data
       IN /\ f.i < Len(data)
          /\ LET decoded == DecodePayload(data[f.i + 1], f.payload)
             IN IF IsNone(decoded)
                THEN /\ Resume(f)
                     /\ future_state' = <<>>
                     /\ Leave(Raised(Exc("TransactionError", "multicall")))
                ELSE /\ mstack' = [mstack EXCEPT
                                     ![Len(mstack)].payload = decoded]
                     /\ args' = [func_name |-> Some(Val(decoded).fn_name),
                                 func_params |-> Some(Val(decoded).args),
                                 silent |-> f.args.silent]
                     /\ pc' = "call"
                     /\ ret' = Running
                     /\ UNCHANGED <<func_name, func_params, future_state>>

\* A variant of Extend that puts the payload's entries in front.
ExtendInFront(list, returned) == returned \o list

\* simulate_multicall: future_state.extend(self.simulate(...)).
Extend(list, returned) == list \o returned

\* simulate_multicall, after the call of simulate on a payload: extend the
\* batch's list, or raise TransactionError for whatever the call raised.
MulticallResume ==
    /\ pc = "return"
    /\ mstack # <<>>
    /\ UNCHANGED <<tx, pools, pool_objects, hop, v3, dec, enc, calls>>
    /\ LET f == mstack[Len(mstack)]
       IN IF ret.kind = "raise"
          THEN /\ Resume(f)
               /\ future_state' = <<>>
               /\ Leave(Raised(Exc("TransactionError", "multicall")))
          ELSE /\ mstack' = [mstack EXCEPT
                               ![Len(mstack)].future_state =
                                   Extend(f.future_state, ret.value),
                               ![Len(mstack)].i = f.i + 1]
               /\ pc' = "multicall"
               /\ ret' = Running
               /\ UNCHANGED <<args, func_name, func_params, future_state>>

\* simulate_multicall returns its list, and the simulate that called it
\* returns that list.
MulticallReturn ==
    /\ pc = "multicall"
    /\ UNCHANGED <<tx, pools, pool_objects, hop, v3, dec, enc, calls>>
    /\ LET f == mstack[Len(mstack)]
       IN /\ f.i = Len(tx.func_params.data)
          /\ Resume(f)
          /\ future_state' = f.future_state
          /\ Leave(Returned(f.future_state))

----------------------------------------------------------------------------
(* V3 transactions and batches.                                            *)

V3SingleTransactions ==
    {Transaction(n, [params |-> <<Addr[1], Addr[2], 3000, "0xto", 9, 3, m,
                                  0>>], 0) :
        n \in {"exactInputSingle", "exactOutputSingle"}, m \in {0, 2}}
    \cup
    {Transaction(n, [params |-> <<Addr[2], Addr[1], 500, "0xto", 3, m, 0>>],
                 0) :
        n \in {"exactInputSingle", "exactOutputSingle"}, m \in {0, 2}}

\* The inverse of the path decoder: addresses interleaved with fees.
RECURSIVE EncodePath(_, _)
EncodePath(tokens, fees) ==
    IF Len(tokens) = 1 THEN AddressOf(tokens[1])
    ELSE AddressOf(tokens[1]) \o FeeSegment(fees[1])
         \o EncodePath(Tail(tokens), Tail(fees))

\* The longest well-formed path of the model, and every prefix of it: all
\* lengths from 0 up, well formed or not.
LongestPath ==
    EncodePath([i \in 1..(MaxPools + 1) |->
                   ((i - 1) % Cardinality(Tokens)) + 1],
               [i \in 1..MaxPools |-> IF i % 2 = 1 THEN 500 ELSE 3000])

EncodedPaths == {SubSeq(LongestPath, 1, n) : n \in 0..Len(LongestPath)}

EncodedPathTransactions ==
    {Transaction(n, [params |-> <<p, "0xto", 9, 3, 0>>], 0) :
        n \in {"exactInput", "exactOutput"}, p \in EncodedPaths}
    \cup
    {Transaction(n, [params |-> <<p, "0xto", 3, 0>>], 0) :
        n \in {"exactInput", "exactOutput"}, p \in EncodedPaths}

\* What the ABI decoder makes of a payload under each router's ABI.
Payload(router, router2) == [router |-> router, router2 |-> router2]
Decoded(name, arguments) == Some([fn_name |-> name, args |-> arguments])

SwapIn ==
    Payload(Decoded("exactInputSingle",
                    [params |-> <<Addr[1], Addr[2], 3000, "0xto", 9, 3, 0,
                                  0>>]),
            None)
SwapOut ==
    Payload(None,
            Decoded("exactOutputSingle",
                    [params |-> <<Addr[2], Addr[3], 500, "0xto", 3, 0, 0>>]))
Refund == Payload(Decoded("refundETH", <<>>), Decoded("refundETH", <<>>))
Garbage == Payload(None, None)
Nested == Payload(Decoded("multicall", [data |-> << Refund >>]), None)
Ambiguous ==
    Payload(Decoded("exactInputSingle",
                    [params |-> <<Addr[1], Addr[2], 3000, "0xto", 9, 3, 0,
                                  0>>]),
            Decoded("exactOutputSingle",
                    [params |-> <<Addr[2], Addr[3], 500, "0xto", 3, 0, 0>>]))

\* Batches of up to MaxData payloads: of swaps, no-ops and undecodable
\* payloads; and of no-ops, undecodable payloads and nested multicalls,
\* two of them with a swap beside the nested multicall; and two with a
\* payload that the two ABIs decode differently.
BatchesOf(payloads) == UNION {[1..n -> payloads] : n \in 0..MaxData}

Batches ==
    BatchesOf({SwapIn, SwapOut, Refund, Garbage})
    \cup BatchesOf({Refund, Garbage, Nested})
    \cup {<<SwapIn, Nested>>, <<Nested, SwapIn>>}
    \cup {<<Ambiguous>>, <<Refund, Ambiguous>>}

MulticallTransactions ==
    {Transaction("multicall", [data |-> d], 0) : d \in Batches}

Transactions ==
    V2Transactions \cup OtherTransactions \cup V3SingleTransactions
    \cup EncodedPathTransactions \cup MulticallTransactions

----------------------------------------------------------------------------
(* The specification.                                                      *)

Init ==
    /\ tx \in Transactions
    /\ args \in {[func_name |-> None, func_params |-> None, silent |-> s] :
                    s \in BOOLEAN}
    /\ pools = [p \in V2Pools |->
                   [reserves_token0 |-> 10, reserves_token1 |-> 12]]
    /\ pc = "call"
    /\ func_name = ""
    /\ func_params = <<>>
    /\ future_state = <<>>
    /\ pool_objects = <<>>
    /\ hop = HopIdle
    /\ v3 = V3Idle
    /\ dec = DecIdle
    /\ enc = EncIdle
    /\ mstack = <<>>
    /\ calls = <<>>
    /\ ret = Running

Next ==
    \/ Simulate
    \/ V2ExactInGetPool
    \/ V2ExactInHop
    \/ V2ExactOutGetPool
    \/ V2ExactOutHop
    \/ ExactInputSingle
    \/ ExactOutputSingle
    \/ ExactInputDecode
    \/ ExactInputHop
    \/ ExactOutputDecode
    \/ ExactOutputHop
    \/ MulticallPayload
    \/ MulticallResume
    \/ MulticallReturn

Spec == Init /\ [][Next]_vars

\* The outermost simulate has returned or raised.
Done == pc = "return" /\ mstack = <<>>

----------------------------------------------------------------------------
(* Repeated invocations on one transaction.                                *)

\* The func_name / func_params arguments a caller may pass to simulate:
\* none, a V3 single hop, a V2 exact-input swap over two pools, a batch.
Overrides ==
    {[func_name |-> None, func_params |-> None],
     [func_name |-> Some("exactInputSingle"),
      func_params |-> Some([params |-> <<Addr[2], Addr[1], 500, "0xto", 3,
                                         0, 0>>])],
     [func_name |-> Some("swapExactTokensForTokens"),
      func_params |-> Some([amountIn |-> 2, amountOutMin |-> 0,
                            path |-> Route(3), to |-> "0xto",
                            deadline |-> 9])],
     [func_name |-> Some("multicall"),
      func_params |-> Some([data |-> << SwapIn >>])]}

\* simulate is invoked once more on the same transaction, after the
\* invocation before it returned or raised.
SimulateAgain ==
    /\ Done
    /\ \E o \in Overrides, s \in BOOLEAN :
           args' = [func_name |-> o.func_name, func_params |-> o.func_params,
                    silent |-> s]
    /\ pc' = "call"
    /\ ret' = Running
    /\ calls' = <<>>
    /\ func_name' = ""
    /\ func_params' = <<>>
    /\ future_state' = <<>>
    /\ pool_objects' = <<>>
    /\ hop' = HopIdle
    /\ v3' = V3Idle
    /\ dec' = DecIdle
    /\ enc' = EncIdle
    /\ UNCHANGED <<tx, pools, mstack>>

NextAgain == Next \/ SimulateAgain

SpecAgain == Init /\ [][NextAgain]_vars

(* C11.  Whatever sequence of simulate / simulate_multicall invocations    *)
(* runs on a transaction, with or without func_name / func_params          *)
(* arguments, returning or raising, no step of it changes the              *)
(* transaction's fields or any pool's live reserves.                       *)
C11_InvocationsLeaveStateAlone ==
    [][tx' = tx /\ pools' = pools]_vars

\* C11's case: a later invocation, given arguments of its own, has walked
\* two pools and returned their entries.
C11_Witness ==
    /\ Done
    /\ ~IsNone(args.func_name)
    /\ ret.kind = "return"
    /\ Len(ret.value) = 2
    /\ Len(calls) = 2

----------------------------------------------------------------------------
(* Vocabulary of the properties.                                           *)

\* The outermost activation is a V2 exact-input swap past its set-up.
InV2ExactIn ==
    /\ mstack = <<>>
    /\ Branch(tx.func_name) \in {"v2_exact_in", "v2_exact_in_eth"}
    /\ pc \in {"v2_in_loop", "return"}
    /\ "path" \in DOMAIN tx.func_params

\* The outermost activation is a V2 exact-output swap of a listed name, past
\* its set-up.
InV2ExactOut ==
    /\ mstack = <<>>
    /\ tx.func_name \in {"swapTokensForExactTokens", "swapTokensForExactETH",
                         "swapETHForExactTokens"}
    /\ pc \in {"v2_out_loop", "return"}

\* The quantity the caller fixed for a V2 exact-input swap.
CallerAmountIn ==
    IF TupleIn(tx.func_name, ExactInETHForTokens)
    THEN tx.value
    ELSE tx.func_params.amountIn

\* The amounts by which a predicted V2 state lowers, or raises, a reserve.
Decreases(pool, predicted) ==
    {pools[pool].reserves_token0 - predicted.reserves_token0,
     pools[pool].reserves_token1 - predicted.reserves_token1} \cap {d \in Int : d > 0}

Increases(pool, predicted) ==
    {predicted.reserves_token0 - pools[pool].reserves_token0,
     predicted.reserves_token1 - pools[pool].reserves_token1} \cap {d \in Int : d > 0}

----------------------------------------------------------------------------
(* C1.  V2 exact-output driver over a path of two or more pools: the pools *)
(* are processed last to first, the first processed pool is simulated with *)
(* the caller's amountOut, and every later pool is simulated with an       *)
(* output quantity equal to the input derived (the reserve increase) at    *)
(* the step before it.                                                     *)
C1_ExactOutThreadsBackward ==
    InV2ExactOut =>
        \A k \in 1..Len(calls) :
            LET path == tx.func_params.path
                n == Len(path)
            IN /\ calls[k].pool = V2Pool(path[n - k], path[n - k + 1])
               /\ k = 1 => calls[k].quantity = Some(tx.func_params.amountOut)
               /\ k > 1 =>
                    /\ ~IsNone(calls[k].quantity)
                    /\ Val(calls[k].quantity) \in
                           Increases(calls[k - 1].pool,
                                     Val(calls[k - 1].answer))

----------------------------------------------------------------------------
(* C8.  V2 exact-input driver over a path of k >= 2 tokens whose pools all *)
(* resolve: the pools are simulated in path order, the first with the      *)
(* caller's amountIn (the transaction's value when the input is native     *)
(* currency), every later one with the output derived (a reserve decrease) *)
(* from the pool before it; and the result, when the driver returns one,   *)
(* has exactly k-1 entries in path order, each the pool's answer.          *)
C8_ExactInThreadsForward ==
    InV2ExactIn =>
        LET path == tx.func_params.path
        IN /\ \A k \in 1..Len(calls) :
                /\ calls[k].pool = V2Pool(path[k], path[k + 1])
                /\ calls[k].side = "token_in"
                /\ k = 1 => calls[k].quantity = Some(CallerAmountIn)
                /\ k > 1 =>
                     /\ ~IsNone(calls[k].quantity)
                     /\ Val(calls[k].quantity) \in
                            Decreases(calls[k - 1].pool,
                                      Val(calls[k - 1].answer))
           /\ (pc = "return" /\ ret.kind = "return") =>
                /\ Len(ret.value) = Len(path) - 1
                /\ Len(calls) = Len(path) - 1
                /\ \A k \in 1..Len(ret.value) :
                     ret.value[k] = Entry(V2Pool(path[k], path[k + 1]),
                                          Val(calls[k].answer))

\* C8's case: a two-pool exact-input swap returned, its second pool having
\* been simulated with a quantity other than the caller's.
C8_Witness ==
    /\ InV2ExactIn
    /\ pc = "return"
    /\ ret.kind = "return"
    /\ Len(ret.value) = 2
    /\ calls[2].quantity # calls[1].quantity
    /\ TupleIn(tx.func_name, ExactInETHForTokens)

----------------------------------------------------------------------------
(* C9.  On a V2 exact-input hop, when the pool's predicted state has       *)
(* neither reserve below the live one, the hop is the last thing simulate  *)
(* does: it raises TransactionError and returns no result.                 *)
C9_NoReserveFellRaises ==
    \A k \in 1..Len(calls) :
        ( /\ calls[k].driver = "v2_swap_exact_in"
          /\ Decreases(calls[k].pool, Val(calls[k].answer)) = {} )
        => /\ k = Len(calls)
           /\ pc = "return"
           /\ ret.kind = "raise"
           /\ ret.exc.type = "TransactionError"
           /\ ret.value = <<>>

\* C9's case: the second pool of an exact-input path answered with both
\* reserves raised, and simulate raised.
C9_Witness ==
    /\ Len(calls) = 2
    /\ calls[2].driver = "v2_swap_exact_in"
    /\ Val(calls[2].answer).reserves_token0
           > pools[calls[2].pool].reserves_token0
    /\ Val(calls[2].answer).reserves_token1
           > pools[calls[2].pool].reserves_token1
    /\ ret.kind = "raise"

----------------------------------------------------------------------------
(* C10.  An exact-input swap whose derived output is below the caller's    *)
(* minimum (amountOutMin of a V2 swapExact*, amountOutMinimum of a V3      *)
(* exactInputSingle) fails instead of returning Future State Entries.      *)
C10_BelowMinimumFails ==
    Done =>
        /\ ( /\ InV2ExactIn
             /\ hop.i >= 1
             /\ hop.i = Len(pool_objects)
             /\ Val(hop.token_out_quantity) < tx.func_params.amountOutMin )
           => ret.kind = "raise"
        /\ ( /\ tx.func_name = "exactInputSingle"
             /\ ~IsNone(v3.swap_info)
             /\ ~IsNone(v3.limit)
             /\ 0 - Min2(Val(v3.swap_info).amount0_delta,
                         Val(v3.swap_info).amount1_delta) < Val(v3.limit) )
           => ret.kind = "raise"

----------------------------------------------------------------------------
(* C2.  A V3 exact-output single hop whose parameters carry a non-zero     *)
(* amountInMaximum and whose derived input (the larger of the two deltas)  *)
(* exceeds it ends in a TransactionError, not in a result.                 *)
C2_AboveMaximumFails ==
    ( /\ pc = "return"
      /\ func_name = "exactOutputSingle"
      /\ ~IsNone(v3.amountIn)
      /\ ~IsNone(v3.limit)
      /\ Val(v3.limit) # 0
      /\ Val(v3.amountIn) > Val(v3.limit) )
    => /\ ret.kind = "raise"
       /\ ret.exc.type = "TransactionError"

----------------------------------------------------------------------------
(* Encoded paths.                                                          *)

\* A byte length of the form 20 + 23k, k >= 0, and the k of such a length.
WellFormedLength(n) ==
    n >= AddressBytes /\ (n - AddressBytes) % (AddressBytes + FeeBytes) = 0
PoolsOfLength(n) == (n - AddressBytes) \div (AddressBytes + FeeBytes)

\* The outermost call is an encoded-path swap whose path is well formed
\* and whose every pool so far resolved and simulated.
EncodedPathRan(name) ==
    /\ Done
    /\ tx.func_name = name
    /\ dec.bound
    /\ WellFormedLength(Len(dec.path))
    /\ calls # <<>>
    /\ \A k \in 1..Len(calls) : ~IsNone(calls[k].answer)

\* The magnitude a V3 answer implies for the token that left the pool, and
\* for the token that entered it.
V3Output(answer) ==
    0 - Min2(answer.swap_info.amount0_delta, answer.swap_info.amount1_delta)
V3Input(answer) ==
    Max2(answer.swap_info.amount0_delta, answer.swap_info.amount1_delta)

(* C3.  exactInput over a well-formed path of N >= 1 pools that all        *)
(* resolve and simulate returns exactly N entries, one per (tokenIn, fee,  *)
(* tokenOut) triple from left to right; the first triple is simulated with *)
(* the caller's amountIn, each later one with the output derived from the  *)
(* triple before it.                                                       *)
C3_ExactInputYieldsNEntries ==
    (EncodedPathRan("exactInput") /\ PoolsOfLength(Len(dec.path)) >= 1) =>
        LET n == PoolsOfLength(Len(dec.path))
            triple(k) == V3Pool(dec.decoded[2 * k - 1], dec.decoded[2 * k + 1],
                                dec.decoded[2 * k])
        IN /\ ret.kind = "return"
           /\ Len(ret.value) = n
           /\ Len(calls) = n
           /\ \A k \in 1..n :
                /\ ret.value[k].pool = triple(k)
                /\ calls[k].pool = triple(k)
                /\ calls[k].quantity =
                       IF k = 1 THEN Some(dec.amount)
                       ELSE Some(V3Output(Val(calls[k - 1].answer)))

(* C4.  exactOutput over the path [tokenC, fee2, tokenB, fee1, tokenA]     *)
(* with target Q, both pools resolving and simulating, returns exactly two *)
(* entries, pool(B,C) then pool(A,B); pool(B,C) is simulated with output   *)
(* Q and pool(A,B) with the input derived for pool(B,C).                   *)
C4_ExactOutputYieldsTwoEntries ==
    (EncodedPathRan("exactOutput") /\ PoolsOfLength(Len(dec.path)) = 2) =>
        LET poolBC == V3Pool(dec.decoded[3], dec.decoded[1], dec.decoded[2])
            poolAB == V3Pool(dec.decoded[5], dec.decoded[3], dec.decoded[4])
        IN /\ ret.kind = "return"
           /\ Len(ret.value) = 2
           /\ ret.value[1].pool = poolBC
           /\ ret.value[2].pool = poolAB
           /\ Len(calls) = 2
           /\ calls[1].quantity = Some(dec.amount)
           /\ calls[2].quantity = Some(V3Input(Val(calls[1].answer)))

(* C5.  The path decoder of exactInput and exactOutput rejects every byte  *)
(* sequence whose length is not 20 + 23k: the decode loop never hands such *)
(* a sequence on as a decoded path, and the call does not return normally. *)
C5_MalformedPathRejected ==
    ( /\ mstack = <<>>
      /\ tx.func_name \in {"exactInput", "exactOutput"}
      /\ dec.bound
      /\ ~WellFormedLength(Len(dec.path)) )
    => /\ pc \notin {"exactInput_hops", "exactOutput_hops"}
       /\ pc = "return" => ret.kind = "raise"

----------------------------------------------------------------------------
(* C6.  simulate_multicall fails with TransactionError whenever a payload  *)
(* of the batch decodes under neither router ABI, wherever it stands in    *)
(* the batch; such a payload is never dispatched, so it contributes no     *)
(* entries.                                                                *)
Undecodable(payload) == IsNone(payload.router) /\ IsNone(payload.router2)

C6_UndecodablePayloadFails ==
    tx.func_name = "multicall" =>
        /\ (pc = "call" /\ Len(mstack) = 1) =>
               ~Undecodable(tx.func_params.data[mstack[1].i + 1])
        /\ ( /\ Done
             /\ \E i \in 1..Len(tx.func_params.data) :
                    Undecodable(tx.func_params.data[i]) )
           => /\ ret.kind = "raise"
              /\ ret.exc.type = "TransactionError"

----------------------------------------------------------------------------
(* C7.  For every function name that equals none of the names the          *)
(* dispatcher lists, simulate invokes no driver, resolves no pool, raises  *)
(* nothing and returns an empty list.                                      *)
C7_UnlistedNameIsEmpty ==
    (mstack = <<>> /\ pc # "call" /\ tx.func_name \notin ListedNames) =>
        /\ pc = "return"
        /\ ret = Returned(<<>>)
        /\ pool_objects = <<>>
        /\ calls = <<>>

----------------------------------------------------------------------------
\* What a payload dispatches when it is the only one of its batch, whether
\* that is a swap through one V3 pool, and the pool it names.
OwnDecoding(payload) == Val(DecodePayload(payload, None))
IsSwap(payload) ==
    OwnDecoding(payload).fn_name \in {"exactInputSingle", "exactOutputSingle"}
PayloadPool(payload) ==
    LET u == V3Unpack(OwnDecoding(payload).args)
    IN V3Pool(u.tokenIn, u.tokenOut, u.fee)

(* C12.  A multicall whose payloads all decode and all simulate returns    *)
(* the concatenation, in payload order, of what each payload yields on its *)
(* own: one entry per swap payload, the pool it names with the state that  *)
(* pool's simulator predicted, and nothing for a payload that moves no     *)
(* reserves.                                                               *)
C12_BatchIsConcatenation ==
    ( /\ Done
      /\ tx.func_name = "multicall"
      /\ ret.kind = "return"
      /\ \A i \in 1..Len(tx.func_params.data) :
             ~Undecodable(tx.func_params.data[i]) )
    => LET swaps == SelectSeq(tx.func_params.data, IsSwap)
       IN /\ Len(ret.value) = Len(swaps)
          /\ Len(calls) = Len(swaps)
          /\ \A k \in 1..Len(swaps) :
                /\ calls[k].pool = PayloadPool(swaps[k])
                /\ ret.value[k] = Entry(PayloadPool(swaps[k]),
                                        Val(calls[k].answer).final_state)

\* C12's case: a batch of two swaps through different pools, with a
\* payload that moves no reserves beside them or not, returned both entries.
C12_Witness ==
    /\ Done
    /\ tx.func_name = "multicall"
    /\ ret.kind = "return"
    /\ Len(ret.value) = 2
    /\ ret.value[1].pool # ret.value[2].pool
    /\ \A i \in 1..Len(tx.func_params.data) :
           ~Undecodable(tx.func_params.data[i])

----------------------------------------------------------------------------
(* The path decoder on paths built by the inverse construction.            *)

\* Numbers of addresses, fee tiers (one of them above 65535, so that all
\* three bytes of a segment count), and the sequences built from them.
RoundTripSizes == {1, 2, 5}
RoundTripFees == {500, 3000, 100000}
RoundTripInputs ==
    UNION {{<<tokens, fees>> :
               tokens \in {[i \in 1..n |->
                               ((i + s) % Cardinality(Tokens)) + 1] :
                               s \in 0..2},
               fees \in [1..(n - 1) -> RoundTripFees]} :
           n \in RoundTripSizes}

\* address, fee, address, ..., address
Alternate(tokens, fees) ==
    [i \in 1..(2 * Len(tokens) - 1) |->
        IF i % 2 = 1 THEN Hex(AddressOf(tokens[(i + 1) \div 2]))
        ELSE fees[i \div 2]]

\* Each input with its encoding.
RoundTrips ==
    {[tokens |-> in[1], fees |-> in[2],
      encoded |-> EncodePath(in[1], in[2])] : in \in RoundTripInputs}

InitRoundTrip ==
    /\ \E row \in RoundTrips, n \in {"exactInput", "exactOutput"} :
          tx = Transaction(n, [params |-> <<row.encoded, "0xto", 9, 3, 0>>],
                           0)
    /\ args \in {[func_name |-> None, func_params |-> None, silent |-> s] :
                    s \in BOOLEAN}
    /\ pools = [p \in V2Pools |->
                   [reserves_token0 |-> 10, reserves_token1 |-> 12]]
    /\ pc = "call"
    /\ func_name = ""
    /\ func_params = <<>>
    /\ future_state = <<>>
    /\ pool_objects = <<>>
    /\ hop = HopIdle
    /\ v3 = V3Idle
    /\ dec = DecIdle
    /\ enc = EncIdle
    /\ mstack = <<>>
    /\ calls = <<>>
    /\ ret = Running

NextRoundTrip ==
    \/ Simulate
    \/ ExactInputDecode
    \/ ExactInputHop
    \/ ExactOutputDecode
    \/ ExactOutputHop

SpecRoundTrip == InitRoundTrip /\ [][NextRoundTrip]_vars

\* The decode loop has been left.
DecodeLoopLeft ==
    /\ dec.bound
    /\ pc \in {"exactInput_hops", "exactOutput_hops", "return"}

(* C13.  Path decoder round trip: for N in {1, 2, 5}, the concatenation of *)
(* N 20-byte addresses interleaved with N-1 3-byte big-endian fees decodes *)
(* to the same alternating sequence, 2N-1 elements, each address as the    *)
(* hex of its bytes and each fee as the unsigned integer of its bytes.     *)
C13_DecodeInvertsEncode ==
    DecodeLoopLeft =>
        \A row \in RoundTrips :
            dec.path = row.encoded
            => dec.decoded = Alternate(row.tokens, row.fees)

\* C13's case: a path of five addresses, a fee above 65535 among its four,
\* has been decoded.
C13_Witness ==
    /\ DecodeLoopLeft
    /\ Len(dec.decoded) = 9
    /\ dec.decoded[2] = 100000
    /\ \E row \in RoundTrips : dec.path = row.encoded

----------------------------------------------------------------------------
\* A predicted V2 state with both reserves below, or both above, the
\* pool's live ones.
BothFell(pool, predicted) ==
    /\ predicted.reserves_token0 < pools[pool].reserves_token0
    /\ predicted.reserves_token1 < pools[pool].reserves_token1
BothRose(pool, predicted) ==
    /\ predicted.reserves_token0 > pools[pool].reserves_token0
    /\ predicted.reserves_token1 > pools[pool].reserves_token1

(* C14.  In a swap of a listed name, a V2 hop whose predicted state has  *)
(* both reserves lowered, on an exact-input hop, or both raised, on an     *)
(* exact-output hop, is rejected: it is the last hop simulated, simulate   *)
(* raises and returns nothing, and no quantity is derived from either      *)
(* reserve.                                                                *)
C14_BothMovedRejected ==
    tx.func_name \in ListedNames =>
        \A k \in 1..Len(calls) :
            ( \/ /\ calls[k].driver = "v2_swap_exact_in"
                 /\ BothFell(calls[k].pool, Val(calls[k].answer))
              \/ /\ calls[k].driver = "v2_swap_exact_out"
                 /\ BothRose(calls[k].pool, Val(calls[k].answer)) )
            => /\ k = Len(calls)
               /\ pc = "return"
               /\ ret.kind = "raise"
               /\ ret.value = <<>>

----------------------------------------------------------------------------
(* C15.  The name and parameters simulate_multicall dispatches for a       *)
(* payload are those of the Router ABI whenever that ABI decodes the       *)
(* payload; the Router2 ABI's are dispatched only when the Router ABI's    *)
(* decode failed.                                                          *)
C15_FirstDecodingWins ==
    (pc = "call" /\ mstack # <<>>) =>
        LET f == mstack[Len(mstack)]
            payload == tx.func_params.data[f.i + 1]
            first == IF ~IsNone(payload.router) THEN payload.router
                     ELSE payload.router2
        IN ~IsNone(first) =>
              /\ args.func_name = Some(Val(first).fn_name)
              /\ args.func_params = Some(Val(first).args)

----------------------------------------------------------------------------
\* The name and parameters a payload decodes to under either ABI.
Decodings(payload) == {payload.router, payload.router2} \ {None}

(* C16.  simulate_multicall entered for the parameter structure P decodes  *)
(* and dispatches the payloads of P's data field, one after the other, not *)
(* those of the enclosing transaction; so a batch of calls that move no    *)
(* reserves and of nested batches of such calls terminates and returns an  *)
(* empty list.                                                             *)
C16_NestedBatchReadsItsOwnData ==
    /\ (pc = "call" /\ mstack # <<>>) =>
          LET f == mstack[Len(mstack)]
              data == f.func_params.data
          IN /\ f.i + 1 \in 1..Len(data)
             /\ Decoded(Val(args.func_name), Val(args.func_params))
                    \in Decodings(data[f.i + 1])
    /\ ( /\ Done
         /\ tx.func_name = "multicall"
         /\ \A i \in 1..Len(tx.func_params.data) :
                tx.func_params.data[i] \in {Refund, Nested} )
       => ret = Returned(<<>>)

----------------------------------------------------------------------------
(* C17.  An exactOutputSingle hop whose pool resolved and whose simulation *)
(* succeeded, with no maximum input given or with a derived input (the     *)
(* larger of the two deltas) not above amountInMaximum, raises nothing and *)
(* returns exactly one entry: the resolved pool with the simulator's       *)
(* predicted state.                                                        *)
C17_WithinMaximumReturnsOneEntry ==
    ( /\ pc = "return"
      /\ func_name = "exactOutputSingle"
      /\ ~IsNone(v3.amountIn)
      /\ \/ IsNone(v3.limit)
         \/ Val(v3.limit) = 0
         \/ Val(v3.amountIn) <= Val(v3.limit) )
    => LET call == calls[Len(calls)]
       IN /\ ret.kind = "return"
          /\ ret.value = << Entry(call.pool, Val(call.answer).final_state) >>

----------------------------------------------------------------------------
(* Termination of the decode loop.                                         *)

\* simulate runs on: whenever a step is possible, one is taken.
FairSpec == Spec /\ WF_vars(Next)

\* Control is in the decode loop of exactInput or exactOutput.
InDecodeLoop == pc \in {"exactInput_decode", "exactOutput_decode"}

(* C18.  Path decoding terminates for every byte sequence, of a length of  *)
(* the form 20 + 23k or not: once control is in the decode loop of         *)
(* exactInput or exactOutput, it leaves the loop, with a decoded sequence  *)
(* or with an error.                                                       *)
C18_DecodeLoopTerminates == InDecodeLoop ~> ~InDecodeLoop

====
